---- MODULE Spec2Model ----
(***************************************************************************)
(* Model of stonesoup/dataassociator/general.py:                           *)
(*   GeneralAssociationGate, RecentTrackMeasure and                        *)
(*   OneToOneAssociatorWithGates (__init__, associate,                     *)
(*   individual_weighting).                                                *)
(*                                                                         *)
(* Numbers.  Every numeric score, threshold and fail value is held as an   *)
(* integer count of 1/Scale units, so that the threshold 0.5 used by one   *)
(* of the documented scenarios is representable.  Comparisons and sums are *)
(* unchanged by the scaling.                                               *)
(*                                                                         *)
(* Optional values.  Python's None is the empty tuple, a present value v   *)
(* is the one-element tuple <<v>>.                                         *)
(***************************************************************************)
EXTENDS Integers, Sequences, FiniteSets, TLC

\* ------------------------------------------------------------------ bounds
Scale == 2
MaxGates == 2
MaxCalls == 2

\* --------------------------------------------------------------- optionals
None == <<>>
Some(v) == <<v>>
IsNone(o) == o = <<>>
Val(o) == o[1]

\* ------------------------------------------------------------ input ranges
\* The items.  "a1" may be in both input sets.
Items == {"a1", "a2", "b1", "b2"}

SetsA == {{}, {"a1"}, {"a1", "a2"}}
SetsB == {{}, {"b1"}, {"b1", "b2"}, {"a1", "b1"}}

\* What a measure may return for a pair.
MeasureOutputs == {None, Some(1 * Scale), Some(5 * Scale)}

\* Constructor arguments that the caller may pass (None = left out).
FailArgs == {None, Some(3 * Scale)}
ThresholdArgs == {None, Some(Scale \div 2), Some(3 * Scale)}

\* A gate is a predicate on pairs; it is represented by the set of pairs it
\* rejects.
PassAll == {}
RejectOne == {<<"a1", "b1">>}
GateChoices == {PassAll, RejectOne}

\* Ranges for RecentTrackMeasure.
MaxTime == 2
MaxTrackLen == 3
MaxStatesToCompare == 2
StateVectors == {0, 1}
States == [timestamp : 1..MaxTime, state_vector : StateVectors]

VARIABLES
    kwargs,                 \* constructor arguments as passed by the caller
    gates,                  \* self.gates
    fail_gate_value,        \* self.fail_gate_value
    measure,                \* self.measure, as its table on objects_a x objects_b
    association_threshold,  \* self.association_threshold
    maximise_measure,       \* self.maximise_measure
    objects_a,              \* first argument of the associate calls
    objects_b,              \* second argument of the associate calls
    list_of_as,             \* enumeration order of objects_a in the last call
    list_of_bs,             \* enumeration order of objects_b in the last call
    distance_matrix,        \* cost matrix of the last call
    gain,                   \* solver's gain in the last call (<<>> = size 0)
    col4row,                \* solver's column for each row in the last call
    outcome,                \* "idle", "returned" or "raised"
    result,                 \* returned triple of the last call, or NoResult
    first_result,           \* returned triple of the first call, or NoResult
    calls,                  \* number of associate calls made
    solved,                 \* what assign2D answered for each matrix so far
    track1,                 \* first argument of RecentTrackMeasure.__call__
    track2,                 \* second argument of RecentTrackMeasure.__call__
    n_states_to_compare,    \* RecentTrackMeasure.n_states_to_compare
    rtm_output,             \* what RecentTrackMeasure.__call__ returned
    rtm_called              \* TRUE once RecentTrackMeasure.__call__ has run

vars == <<kwargs, gates, fail_gate_value, measure, association_threshold,
          maximise_measure, objects_a, objects_b, list_of_as, list_of_bs,
          distance_matrix, gain, col4row, outcome, result, first_result,
          calls, solved, track1, track2, n_states_to_compare, rtm_output,
          rtm_called>>

assoc_vars == <<kwargs, gates, fail_gate_value, measure,
                association_threshold, maximise_measure, objects_a,
                objects_b, list_of_as, list_of_bs, distance_matrix, gain,
                col4row, outcome, result, first_result, calls, solved>>

rtm_vars == <<track1, track2, n_states_to_compare, rtm_output, rtm_called>>

config == <<kwargs, gates, fail_gate_value, measure, association_threshold,
            maximise_measure, objects_a, objects_b>>

NoResult == <<>>

\* -------------------------------------------------------------- helpers
Min(x, y) == IF x <= y THEN x ELSE y

\* All enumeration orders of a finite set (list(set) in Python).
Orders(S) ==
    {f \in [1..Cardinality(S) -> S] :
        \A i, j \in 1..Cardinality(S) : f[i] = f[j] => i = j}

SeqsUpTo(S, n) == UNION {[1..k -> S] : k \in 0..n}

\* ------------------------------------------------------- gates (l. 18-22)
\* GeneralAssociationGate.__call__: True iff the gate admits the pair.
GateCall(gate, item1, item2) == <<item1, item2>> \notin gate

\* --------------------------------------- __init__ defaults (l. 79-95)
DefaultFailGateValue(maximise) ==
    IF maximise THEN 0 ELSE 1000000 * Scale

\* Variant with the two directions' defaults exchanged.
DefaultAssociationThresholdSwapped(maximise) ==
    IF maximise THEN 1000000 * Scale ELSE 0

DefaultAssociationThreshold(maximise) ==
    IF maximise THEN 0 ELSE 1000000 * Scale

InitFailGateValue(arg, maximise) ==
    IF IsNone(arg) THEN DefaultFailGateValue(maximise) ELSE Val(arg)

InitAssociationThreshold(arg, maximise) ==
    IF IsNone(arg) THEN DefaultAssociationThreshold(maximise) ELSE Val(arg)

\* ------------------------------------ individual_weighting (l. 162-172)
RECURSIVE GateLoop(_, _, _, _)
\* The for loop over self.gates from position k: TRUE iff some gate from k
\* on returns False (the loop returns at the first such gate).
GateLoop(gs, k, a, b) ==
    IF k > Len(gs) THEN FALSE
    ELSE IF ~GateCall(gs[k], a, b) THEN TRUE
    ELSE GateLoop(gs, k + 1, a, b)

\* Variant that consults the first gate of the chain only.
individual_weighting_first_gate(gs, fail, meas, a, b) ==
    IF Len(gs) > 0 /\ ~GateCall(gs[1], a, b) THEN fail
    ELSE LET measure_output == meas[<<a, b>>]
         IN  IF IsNone(measure_output) THEN fail ELSE Val(measure_output)

individual_weighting(gs, fail, meas, a, b) ==
    IF GateLoop(gs, 1, a, b) THEN fail
    ELSE LET measure_output == meas[<<a, b>>]
         IN  IF IsNone(measure_output) THEN fail ELSE Val(measure_output)

\* ----------------------------------------------- assign2D (external solver)
\* The solver is not part of general.py; it is modelled from its contract:
\* a globally optimal one-to-one matching that matches every row or every
\* column, whichever are fewer, with -1 for a row left unmatched; a
\* zero-size gain when the matrix has no rows or no columns.  Rows and
\* columns are numbered from 1.
Unmatched == 0 - 1

AllAssignments ==
    [n \in 0..Cardinality(Items), m \in 0..Cardinality(Items) |->
        {c \in [1..n -> {Unmatched} \cup (1..m)] :
            /\ \A i, j \in 1..n : (c[i] # Unmatched /\ c[i] = c[j]) => i = j
            /\ Cardinality({i \in 1..n : c[i] # Unmatched}) = Min(n, m)}]

Assignments(n, m) == AllAssignments[n, m]

RECURSIVE TotalFrom(_, _, _)
TotalFrom(C, c, i) ==
    IF i > Len(c) THEN 0
    ELSE (IF c[i] = Unmatched THEN 0 ELSE C[i][c[i]]) + TotalFrom(C, c, i + 1)

Total(C, c) == TotalFrom(C, c, 1)

Extreme(S, maximize) ==
    CHOOSE t \in S : \A u \in S : IF maximize THEN t >= u ELSE t <= u

OptimalAmong(C, all, maximize) ==
    UNION {{c \in all : Total(C, c) = best} :
              best \in {Extreme({Total(C, c) : c \in all}, maximize)}}

Optimal(C, n, m, maximize) == OptimalAmong(C, Assignments(n, m), maximize)

assign2D(C, n, m, maximize) ==
    IF n = 0 \/ m = 0
    THEN {[gain |-> <<>>, col4row |-> <<>>]}
    ELSE {[gain |-> <<Total(C, c)>>, col4row |-> c] :
            c \in Optimal(C, n, m, maximize)}

\* assign2D is a function of its arguments: a matrix it has answered before
\* gets the same answer again.  Only matrices with more than one optimal
\* matching need to be remembered, the others have one possible answer.
Answers(memo, C, fresh) ==
    IF \E p \in memo : p[1] = C
    THEN {p[2] : p \in {q \in memo : q[1] = C}}
    ELSE fresh

Remember(memo, C, fresh, r) ==
    IF Cardinality(fresh) > 1 THEN memo \cup {<<C, r>>} ELSE memo

\* ------------------------------------------------- associate (l. 97-160)
\* l. 114-121: the cost matrix over the two lists.
CostMatrix(as, bs, gs, fail, meas) ==
    [i \in 1..Len(as) |->
        [j \in 1..Len(bs) |-> individual_weighting(gs, fail, meas, as[i], bs[j])]]

\* Variant that passes the opposite direction flag to the solver.
SolverCallOppositeFlag(C, n, m, maximise) == assign2D(C, n, m, ~maximise)

\* l. 123-130: the solver is called on a copy of the matrix with the
\* associator's own direction flag.
SolverCall(C, n, m, maximise) == assign2D(C, n, m, maximise)

\* Variant whose feasibility test is gain.size < 0.
NotFeasibleStrict(g) == Len(g) < 0

\* l. 133-134: gain.size <= 0 raises RuntimeError.
NotFeasible(g) == Len(g) <= 0

\* Variant that also skips a value equal to the threshold.
PassesThresholdStrict(value, threshold, maximise) ==
    IF maximise THEN value > threshold ELSE value < threshold

\* l. 146-151: TRUE iff neither `continue` is taken.
PassesThreshold(value, threshold, maximise) ==
    IF maximise THEN ~(value < threshold) ELSE ~(value > threshold)

\* l. 137-153: the loop over the rows that fills the AssociationSet.
Associations(as, bs, C, c4r, threshold, maximise) ==
    {{as[i], bs[c4r[i]]} :
        i \in {k \in 1..Len(as) :
                  /\ c4r[k] # Unmatched
                  /\ PassesThreshold(C[k][c4r[k]], threshold, maximise)}}

\* l. 155
AssociatedAll(assocs) == UNION assocs

\* Variant that removes the items of one Association only.
UnassociatedOfOne(objects, assocs) ==
    IF assocs = {} THEN objects
    ELSE objects \ (CHOOSE p \in assocs : TRUE)

\* l. 157-158
Unassociated(objects, assocs) == objects \ AssociatedAll(assocs)

\* One call of associate(objects_a, objects_b), from the choice of the two
\* enumeration orders to the return or the raise.  The call reads the
\* associator and the two sets and changes neither.
Call ==
    /\ \E as \in Orders(objects_a), bs \in Orders(objects_b) :
       \E C \in {CostMatrix(as, bs, gates, fail_gate_value, measure)} :
       \E fresh \in {SolverCall(C, Len(as), Len(bs), maximise_measure)} :
       \E r \in Answers(solved, C, fresh) :
          /\ list_of_as' = as
          /\ list_of_bs' = bs
          /\ distance_matrix' = C
          /\ gain' = r.gain
          /\ col4row' = r.col4row
          /\ solved' = Remember(solved, C, fresh, r)
          /\ IF \/ NotFeasible(r.gain)
                \/ Len(r.col4row) < Len(as)  \* l. 141 would index past the end
             THEN /\ outcome' = "raised"
                  /\ result' = NoResult
                  /\ first_result' = first_result
             ELSE \E associations \in
                        {Associations(as, bs, C, r.col4row,
                                      association_threshold,
                                      maximise_measure)} :
                  \E triple \in
                        {<<associations,
                           Unassociated(objects_a, associations),
                           Unassociated(objects_b, associations)>>} :
                     /\ outcome' = "returned"
                     /\ result' = triple
                     /\ first_result' =
                           IF calls = 0 THEN triple ELSE first_result
    /\ calls' = calls + 1
    /\ UNCHANGED config
    /\ UNCHANGED rtm_vars

\* The first call on a freshly constructed associator.
Associate ==
    /\ calls = 0
    /\ Call

\* A further call with the same two sets on the same associator.
AssociateAgain ==
    /\ calls > 0
    /\ calls < MaxCalls
    /\ Call

\* ------------------------------------------------------------------- Init
\* The associator right after __init__, for every constructor call within
\* the input ranges, and one pair of input sets.
Init ==
    /\ kwargs \in [fail_gate_value : FailArgs,
                   association_threshold : ThresholdArgs]
    /\ maximise_measure \in BOOLEAN
    /\ gates \in SeqsUpTo(GateChoices, MaxGates)
    /\ fail_gate_value =
          InitFailGateValue(kwargs.fail_gate_value, maximise_measure)
    /\ association_threshold =
          InitAssociationThreshold(kwargs.association_threshold,
                                   maximise_measure)
    /\ objects_a \in SetsA
    /\ objects_b \in SetsB
    /\ measure \in [objects_a \X objects_b -> MeasureOutputs]
    /\ list_of_as = <<>>
    /\ list_of_bs = <<>>
    /\ distance_matrix = <<>>
    /\ gain = <<>>
    /\ col4row = <<>>
    /\ outcome = "idle"
    /\ result = NoResult
    /\ first_result = NoResult
    /\ calls = 0
    /\ solved = {}
    /\ track1 = <<>>
    /\ track2 = <<>>
    /\ n_states_to_compare = 0
    /\ rtm_output = None
    /\ rtm_called = FALSE

Next == Associate

\* associate does not change the associator, so one call from every initial
\* state covers every call.
Spec == Init /\ [][Next]_vars

NextRepeated == Associate \/ AssociateAgain

\* Repeated calls with identical inputs and configuration.
SpecRepeated == Init /\ [][NextRepeated]_vars

\* -------------------------------------- RecentTrackMeasure (l. 39-65)
\* state_measure is a configured Measure; the absolute difference of the two
\* state vectors stands for it.
state_measure(state1, state2) ==
    IF state1.state_vector >= state2.state_vector
    THEN state1.state_vector - state2.state_vector
    ELSE state2.state_vector - state1.state_vector

\* d[key] = value on a dict held as a function
DictSet(d, key, value) ==
    [k \in (DOMAIN d) \cup {key} |-> IF k = key THEN value ELSE d[k]]

RECURSIVE DictFrom(_, _, _, _)
\* l. 45-50: the dict comprehension over enumerate(reversed(states)), from
\* reversed position i (counted from 0) with the dict d built so far.
DictFrom(states, n, i, d) ==
    IF i >= Len(states) THEN d
    ELSE LET state == states[Len(states) - i]
         IN  DictFrom(states, n, i + 1,
                      IF i < n THEN DictSet(d, state.timestamp, state) ELSE d)

\* Variant that enumerates the states oldest first (no reversed()).
TrackDictOldestFirst(states, n) ==
    DictFrom([i \in 1..Len(states) |-> states[Len(states) + 1 - i]], n, 0, <<>>)

TrackDict(states, n) == DictFrom(states, n, 0, <<>>)

RECURSIVE MeasuresOver(_, _, _)
\* l. 54-60: the loop over all_times; the list of collected sub-scores.
MeasuresOver(times, track_1_dict, track_2_dict) ==
    IF times = {} THEN <<>>
    ELSE LET time == CHOOSE t \in times : TRUE
             rest == MeasuresOver(times \ {time}, track_1_dict, track_2_dict)
         IN  IF time \in DOMAIN track_1_dict /\ time \in DOMAIN track_2_dict
             THEN <<state_measure(track_1_dict[time], track_2_dict[time])>>
                    \o rest
             ELSE rest

RECURSIVE SumSeq(_)
SumSeq(q) == IF q = <<>> THEN 0 ELSE Head(q) + SumSeq(Tail(q))

RECURSIVE GCD(_, _)
GCD(x, y) == IF y = 0 THEN x ELSE GCD(y, x % y)

\* statistics.mean: the exact quotient, held as <<numerator, denominator>>
\* in lowest terms.
mean(q) ==
    LET g == GCD(SumSeq(q), Len(q))
    IN  <<SumSeq(q) \div g, Len(q) \div g>>

RecentTrackMeasure(states1, states2, n) ==
    LET track_1_dict == TrackDict(states1, n)
        track_2_dict == TrackDict(states2, n)
        all_times == (DOMAIN track_1_dict) \cup (DOMAIN track_2_dict)
        measures == MeasuresOver(all_times, track_1_dict, track_2_dict)
    IN  IF Len(measures) # 0 THEN mean(measures) ELSE None

\* One call of RecentTrackMeasure.__call__(track1, track2).
MeasureCall ==
    /\ ~rtm_called
    /\ rtm_output' = RecentTrackMeasure(track1, track2, n_states_to_compare)
    /\ rtm_called' = TRUE
    /\ UNCHANGED <<track1, track2, n_states_to_compare>>
    /\ UNCHANGED assoc_vars

\* A track holds its states in time order.
Tracks ==
    {q \in SeqsUpTo(States, MaxTrackLen) :
        \A i, j \in 1..Len(q) : i < j => q[i].timestamp <= q[j].timestamp}

InitRTM ==
    /\ track1 \in Tracks
    /\ track2 \in Tracks
    /\ n_states_to_compare \in 0..MaxStatesToCompare
    /\ rtm_output = None
    /\ rtm_called = FALSE
    /\ kwargs = [fail_gate_value |-> None, association_threshold |-> None]
    /\ maximise_measure = FALSE
    /\ gates = <<>>
    /\ fail_gate_value = InitFailGateValue(None, FALSE)
    /\ association_threshold = InitAssociationThreshold(None, FALSE)
    /\ objects_a = {}
    /\ objects_b = {}
    /\ measure = <<>>
    /\ list_of_as = <<>>
    /\ list_of_bs = <<>>
    /\ distance_matrix = <<>>
    /\ gain = <<>>
    /\ col4row = <<>>
    /\ outcome = "idle"
    /\ result = NoResult
    /\ first_result = NoResult
    /\ calls = 0
    /\ solved = {}

NextRTM == MeasureCall

SpecRTM == InitRTM /\ [][NextRTM]_vars

\* ======================================================================
\* Properties
\* ======================================================================
Returned == outcome = "returned"

\* Some configured gate returns False for the pair.
GateRejects(a, b) == \E k \in 1..Len(gates) : ~GateCall(gates[k], a, b)

\* Rows of the last call that the solver matched to a column.
MatchedRows == {i \in 1..Len(list_of_as) : col4row[i] # Unmatched}

\* The Association that row i stands for.
PairOf(i) == {list_of_as[i], list_of_bs[col4row[i]]}

\* The original matrix cell of matched row i.
CellOf(i) == distance_matrix[i][col4row[i]]

NeitherConfigured ==
    /\ kwargs.fail_gate_value = None
    /\ kwargs.association_threshold = None

\* The documented 2 x 2 scenario: minimise mode, no gates, measure 1 on
\* (a1,b1) and (a2,b2), 5 on (a1,b2) and (a2,b1).
ExampleMeasure ==
    [p \in {"a1", "a2"} \X {"b1", "b2"} |->
        IF p \in {<<"a1", "b1">>, <<"a2", "b2">>}
        THEN Some(1 * Scale) ELSE Some(5 * Scale)]

ExampleScenario(threshold) ==
    /\ objects_a = {"a1", "a2"}
    /\ objects_b = {"b1", "b2"}
    /\ ~maximise_measure
    /\ gates = <<>>
    /\ measure = ExampleMeasure
    /\ association_threshold = threshold

\* C1 (as claimed): whenever associate returns, a pair (a, b) that at least
\* one configured gate rejects is not an Association of the returned set.
C1_GateVeto ==
    Returned =>
        \A a \in objects_a, b \in objects_b :
            GateRejects(a, b) => {a, b} \notin result[1]

\* C2 (as claimed): whenever associate returns, no item of either input set
\* is in more than one Association of the returned set.
C2_OneToOne ==
    Returned =>
        \A x \in objects_a \cup objects_b :
            Cardinality({p \in result[1] : x \in p}) <= 1

\* C3: whenever associate returns, the pairing taken from the solver is a
\* one-to-one matching of rows to columns whose total over the cost matrix
\* is the minimum (minimise mode) or the maximum (maximise mode) over all
\* one-to-one matchings of the rows or the columns, whichever are fewer;
\* every returned Association is a pair of that matching; and the documented
\* scenario with threshold 3 returns exactly {a1,b1} and {a2,b2} with both
\* unassociated sets empty.
C3_GlobalOptimality ==
    Returned =>
        /\ col4row \in Assignments(Len(list_of_as), Len(list_of_bs))
        /\ \A d \in Assignments(Len(list_of_as), Len(list_of_bs)) :
              IF maximise_measure
              THEN Total(distance_matrix, col4row) >= Total(distance_matrix, d)
              ELSE Total(distance_matrix, col4row) <= Total(distance_matrix, d)
        /\ \A p \in result[1] : \E i \in MatchedRows : p = PairOf(i)
        /\ ExampleScenario(3 * Scale) =>
              result = <<{{"a1", "b1"}, {"a2", "b2"}}, {}, {}>>

C3_Witness ==
    /\ Returned
    /\ ExampleScenario(3 * Scale)
    /\ result[1] = {{"a1", "b1"}, {"a2", "b2"}}

\* C4 (as claimed): every call that returns, returns the set of Associations
\* that the first call returned, whatever enumeration orders the calls take.
C4_Determinism ==
    (first_result # NoResult /\ result # NoResult) =>
        result[1] = first_result[1]

\* C5 (as claimed): with neither fail_gate_value nor association_threshold
\* configured, a call that returns returns no Association and leaves every
\* item unassociated.
C5_RejectByDefault ==
    (NeitherConfigured /\ Returned) =>
        result = <<{}, objects_a, objects_b>>

\* C5 (amended): with neither configured, both take the direction default
\* (0 under maximise, 1e6 under minimise), and every solver-matched pair
\* whose cell is on the admissible side of that default (>= 0 under
\* maximise, <= 1e6 under minimise) is returned as an Association.
C5_DefaultsPermissive ==
    NeitherConfigured =>
        /\ fail_gate_value = (IF maximise_measure THEN 0 ELSE 1000000 * Scale)
        /\ association_threshold =
              (IF maximise_measure THEN 0 ELSE 1000000 * Scale)
        /\ Returned =>
              \A i \in MatchedRows :
                  (IF maximise_measure THEN CellOf(i) >= 0
                                       ELSE CellOf(i) <= 1000000 * Scale)
                      => PairOf(i) \in result[1]

C5_Witness ==
    /\ NeitherConfigured
    /\ Returned
    /\ \E i \in MatchedRows :
          /\ GateRejects(list_of_as[i], list_of_bs[col4row[i]])
          /\ PairOf(i) \in result[1]

\* C6: after a call, a zero-size gain from the solver (as for an empty
\* input set) means that the call raised and returned nothing, and a call
\* that returned, returned the whole triple: a set of Associations over the
\* inputs, a subset of A and a subset of B.
C6_InfeasibleFatal ==
    calls > 0 =>
        /\ outcome \in {"returned", "raised"}
        /\ Len(gain) = 0 => (outcome = "raised" /\ result = NoResult)
        /\ (objects_a = {} \/ objects_b = {}) => outcome = "raised"
        /\ Returned =>
              /\ Len(result) = 3
              /\ \A p \in result[1] : p \subseteq objects_a \cup objects_b
              /\ result[2] \subseteq objects_a
              /\ result[3] \subseteq objects_b

C6_Witness ==
    /\ calls > 0
    /\ objects_a = {}
    /\ objects_b # {}
    /\ outcome = "raised"
    /\ result = NoResult

\* C7: whenever associate returns, unassociated_a is A minus the items found
\* in some returned Association, A is the disjoint union of unassociated_a
\* and the items of A found in some Association, and the same for B.
C7_UnmatchedPartition ==
    Returned =>
        LET inA == {x \in objects_a : \E p \in result[1] : x \in p}
            inB == {x \in objects_b : \E p \in result[1] : x \in p}
        IN  /\ result[2] \subseteq objects_a
            /\ result[2] \cup inA = objects_a
            /\ result[2] \cap inA = {}
            /\ result[3] \subseteq objects_b
            /\ result[3] \cup inB = objects_b
            /\ result[3] \cap inB = {}

C7_Witness ==
    /\ Returned
    /\ Cardinality(result[1]) = 1
    /\ result[2] # {}
    /\ result[2] # objects_a
    /\ result[3] # {}
    /\ result[3] # objects_b

\* C9: whenever associate returns, the Associations are exactly those of the
\* solver-matched rows whose original cell is >= the threshold (maximise
\* mode) or <= the threshold (minimise mode), equality included; and the
\* documented scenario with threshold 0.5 returns no Association and leaves
\* a1, a2, b1 and b2 unassociated.
C9_ThresholdFilter ==
    Returned =>
        /\ result[1] =
              {PairOf(i) :
                  i \in {k \in MatchedRows :
                            IF maximise_measure
                            THEN CellOf(k) >= association_threshold
                            ELSE CellOf(k) <= association_threshold}}
        /\ ExampleScenario(Scale \div 2) =>
              result = <<{}, {"a1", "a2"}, {"b1", "b2"}>>

C9_Witness ==
    /\ Returned
    /\ \E i, j \in MatchedRows :
          /\ CellOf(i) = association_threshold
          /\ PairOf(i) \in result[1]
          /\ PairOf(j) \notin result[1]

\* C10: after a call, the cost matrix has a cell for every a of A and b of B;
\* the cell is fail_gate_value if some gate of the chain rejects (a, b) or
\* the measure gives no score for it, and the measure's score otherwise; and
\* with both sets non-empty the call returned.
C10_CostMatrixCell ==
    calls > 0 =>
        /\ list_of_as \in Orders(objects_a)
        /\ list_of_bs \in Orders(objects_b)
        /\ \A i \in 1..Len(list_of_as), j \in 1..Len(list_of_bs) :
              distance_matrix[i][j] =
                 IF \/ GateRejects(list_of_as[i], list_of_bs[j])
                    \/ measure[<<list_of_as[i], list_of_bs[j]>>] = None
                 THEN fail_gate_value
                 ELSE measure[<<list_of_as[i], list_of_bs[j]>>][1]
        /\ (objects_a # {} /\ objects_b # {}) => Returned

C10_Witness ==
    /\ Returned
    /\ Len(gates) = 2
    /\ \E a \in objects_a, b \in objects_b :
          GateCall(gates[1], a, b) /\ ~GateCall(gates[2], a, b)
    /\ \E a \in objects_a, b \in objects_b :
          ~GateRejects(a, b) /\ measure[<<a, b>>] = None

\* ------------------------------------------------- RecentTrackMeasure
\* Positions of the last n states of a track.
Window(states, n) == {p \in 1..Len(states) : Len(states) - p < n}

WindowTimes(states, n) == {states[p].timestamp : p \in Window(states, n)}

\* The state a window holds for timestamp t.
WindowState(states, n, t) ==
    LET at == {p \in Window(states, n) : states[p].timestamp = t}
    IN  states[CHOOSE p \in at : \A q \in at : p <= q]

SharedTimes ==
    WindowTimes(track1, n_states_to_compare)
        \cap WindowTimes(track2, n_states_to_compare)

RECURSIVE SharedSum(_)
SharedSum(T) ==
    IF T = {} THEN 0
    ELSE LET t == CHOOSE u \in T : TRUE
         IN  state_measure(WindowState(track1, n_states_to_compare, t),
                           WindowState(track2, n_states_to_compare, t))
               + SharedSum(T \ {t})

\* C8: RecentTrackMeasure returns None exactly when the two windows of the
\* last n_states_to_compare states share no timestamp; otherwise it returns
\* the sum of the sub-state measure over the shared timestamps divided by
\* their number.
C8_RecentWindowOverlap ==
    rtm_called =>
        /\ rtm_output = None <=> SharedTimes = {}
        /\ SharedTimes # {} =>
              /\ Len(rtm_output) = 2
              /\ rtm_output[2] > 0
              /\ rtm_output[1] * Cardinality(SharedTimes)
                    = rtm_output[2] * SharedSum(SharedTimes)

C8_Witness ==
    /\ rtm_called
    /\ rtm_output # None
    /\ rtm_output[1] # 0
    /\ \E p \in 1..Len(track1) :
          /\ p \notin Window(track1, n_states_to_compare)
          /\ track1[p].timestamp \in WindowTimes(track2, n_states_to_compare)
          /\ track1[p].timestamp \notin SharedTimes

====
